---- MODULE Spec2Model ----
(***************************************************************************)
(* A model of the "zipette" interpreter: lexer (src/src/lexer.rs), parser  *)
(* and expression/statement evaluation (src/src/parser.rs), the statement  *)
(* runner (src/src/interpreter.rs) and the driver (src/src/main.rs).       *)
(*                                                                         *)
(* Source text is a sequence of one-character strings.  An f64 is a record *)
(*   [k |-> "fin", n, d, e]   the number (n / d) * 2^e, n and d odd and    *)
(*                            coprime (zero is n = 0, d = 1, e = 0),       *)
(*   [k |-> "inf", s]         s = 1 for +inf, s = -1 for -inf,             *)
(*   [k |-> "nan"].                                                        *)
(* Arithmetic on these records is exact: the rounding of f64 and the sign  *)
(* of zero are not modelled.  Integers of type u32 and u64 are the sets of *)
(* the positions of their one bits.                                        *)
(***************************************************************************)
EXTENDS Integers, Sequences, FiniteSets, TLC

(***************************************************************************)
(* Integer helpers                                                         *)
(***************************************************************************)
Abs(x) == IF x < 0 THEN -x ELSE x

Sign(x) == IF x < 0 THEN -1 ELSE IF x = 0 THEN 0 ELSE 1

RECURSIVE Gcd(_, _)
Gcd(a, b) == IF b = 0 THEN a ELSE Gcd(b, a % b)

RECURSIVE TwoAdic(_)
TwoAdic(x) == IF x % 2 = 0 THEN 1 + TwoAdic(x \div 2) ELSE 0

RECURSIVE BitsOf(_)
BitsOf(x) ==
    IF x = 0 THEN {}
    ELSE (IF x % 2 = 1 THEN {0} ELSE {}) \cup {b + 1 : b \in BitsOf(x \div 2)}

RECURSIVE SumPow2(_)
SumPow2(S) ==
    IF S = {} THEN 0
    ELSE LET b == CHOOSE x \in S : TRUE IN 2^b + SumPow2(S \ {b})

SetMax(S) == CHOOSE x \in S : \A y \in S : y <= x

SetMin(S) == CHOOSE x \in S : \A y \in S : x <= y

(***************************************************************************)
(* f64 values and arithmetic                                               *)
(***************************************************************************)
F64_MAX_EXP == 1024

F64_MIN_EXP == -1021

F64_MANTISSA_DIGITS == 53

Zero == [k |-> "fin", n |-> 0, d |-> 1, e |-> 0]

One == [k |-> "fin", n |-> 1, d |-> 1, e |-> 0]

Inf(s) == [k |-> "inf", s |-> s]

NaN == [k |-> "nan"]

\* n / d >= 2^j, for n, d in 1 .. 2^31 - 1
GeqPow2(n, d, j) ==
    IF j >= 0 THEN j < 31 /\ n \div 2^j >= d
    ELSE -j >= 31 \/ n >= (d + 2^(-j) - 1) \div 2^(-j)

\* s * (n / d) * 2^e in the range of f64: infinite from 2^1024 on, zero
\* below the least subnormal number
Ranged(s, n, d, e) ==
    IF GeqPow2(n, d, F64_MAX_EXP - e) THEN Inf(s)
    ELSE IF ~GeqPow2(n, d, F64_MIN_EXP - F64_MANTISSA_DIGITS - 1 - e) THEN Zero
    ELSE [k |-> "fin", n |-> s * n, d |-> d, e |-> e]

\* with the factors 2^tn of n and 2^td of d moved to the exponent
OddParts(s, n, d, e, tn, td) == Ranged(s, n \div 2^tn, d \div 2^td, e + tn - td)

\* with n and d divided by g
Lowest(s, n, d, e, g) ==
    OddParts(s, n \div g, d \div g, e, TwoAdic(n \div g), TwoAdic(d \div g))

\* the f64 (n / d) * 2^e, for an integer n and a positive integer d
Fin(n, d, e) ==
    IF n = 0 THEN Zero ELSE Lowest(Sign(n), Abs(n), d, e, Gcd(Abs(n), d))

Int2F(i) == Fin(i, 1, 0)

FSign(a) == IF a.k = "inf" THEN a.s ELSE Sign(a.n)

IsZero(a) == a.k = "fin" /\ a.n = 0

\* a is an integer-valued finite number
IsInteger(a) == a.k = "fin" /\ a.d = 1 /\ a.e >= 0

\* the value of an integer-valued finite number below 2^31
IntOf(a) == a.n * 2^(a.e)

FNeg(a) ==
    CASE a.k = "nan" -> NaN
      [] a.k = "inf" -> Inf(-a.s)
      [] OTHER -> [a EXCEPT !.n = -@]

\* the smaller of two exponents
MinExp(a, b) == IF a.e < b.e THEN a.e ELSE b.e

FAdd(a, b) ==
    CASE a.k = "nan" \/ b.k = "nan" -> NaN
      [] a.k = "inf" /\ b.k = "inf" -> IF a.s = b.s THEN a ELSE NaN
      [] a.k = "inf" -> a
      [] b.k = "inf" -> b
      [] OTHER ->
           Fin(a.n * 2^(a.e - MinExp(a, b)) * b.d + b.n * 2^(b.e - MinExp(a, b)) * a.d,
               a.d * b.d, MinExp(a, b))

FMul(a, b) ==
    CASE a.k = "nan" \/ b.k = "nan" -> NaN
      [] a.k = "inf" \/ b.k = "inf" ->
           IF IsZero(a) \/ IsZero(b) THEN NaN ELSE Inf(FSign(a) * FSign(b))
      [] OTHER -> Fin(a.n * b.n, a.d * b.d, a.e + b.e)

FDiv(a, b) ==
    CASE a.k = "nan" \/ b.k = "nan" -> NaN
      [] a.k = "inf" /\ b.k = "inf" -> NaN
      [] a.k = "inf" -> Inf(a.s * (IF FSign(b) < 0 THEN -1 ELSE 1))
      [] b.k = "inf" -> Zero
      [] IsZero(b) -> IF IsZero(a) THEN NaN ELSE Inf(FSign(a))
      [] OTHER -> Fin(Sign(b.n) * a.n * b.d, a.d * Abs(b.n), a.e - b.e)

\* a^i for a natural number i, by squaring
Square(h) == FMul(h, h)

RECURSIVE FPowNat(_, _)
FPowNat(a, i) ==
    IF i = 0 THEN One
    ELSE IF i % 2 = 1 THEN FMul(a, FPowNat(a, i - 1))
    ELSE Square(FPowNat(a, i \div 2))

\* p, or 1 / p
Reciprocal(p, inverse) == IF inverse THEN FDiv(One, p) ELSE p

\* -1, 0, 1 as the magnitude of a finite or infinite a is below, at, above 1
CmpOne(a) ==
    CASE a.k = "inf" -> 1
      [] a.e >= 0 -> Sign(Abs(a.n) * 2^(a.e) - a.d)
      [] OTHER -> Sign(Abs(a.n) - a.d * 2^(-a.e))

\* The result of f64::powf where it is not a rational number (a fractional
\* exponent of a base other than 0 and 1): no record of this model holds it.
Unmodelled == [k |-> "unmodelled"]

\* f64::powf
FPow(a, b) ==
    CASE IsZero(b) -> One
      [] a = One -> One
      [] a.k = "nan" \/ b.k = "nan" -> NaN
      [] b.k = "inf" /\ CmpOne(a) = 0 -> One
      [] b.k = "inf" -> IF (b.s > 0) = (CmpOne(a) > 0) THEN Inf(1) ELSE Zero
      [] IsInteger(b) /\ a.k = "fin" -> Reciprocal(FPowNat(a, Abs(IntOf(b))), b.n < 0)
      [] IsInteger(b) /\ a.k = "inf" ->
           IF b.n < 0 THEN Zero
           ELSE IF a.s < 0 /\ IntOf(b) % 2 = 1 THEN Inf(-1) ELSE Inf(1)
      [] IsZero(a) -> IF FSign(b) > 0 THEN Zero ELSE Inf(1)
      [] OTHER -> Unmodelled

\* the integer part of a finite a that is not an integer, as an integer
IntPart(a) ==
    IF a.e >= 0 THEN (Abs(a.n) * 2^(a.e)) \div a.d
    ELSE IF -a.e > 30 THEN 0
    ELSE Abs(a.n) \div (a.d * 2^(-a.e))

\* f64::trunc: the integer part, rounding toward zero
FTrunc(a) ==
    IF a.k # "fin" \/ IsInteger(a) THEN a ELSE Int2F(Sign(a.n) * IntPart(a))

(***************************************************************************)
(* Unsigned integers as sets of bit positions, and the casts               *)
(***************************************************************************)
U32_BITS == 32

U64_BITS == 64

AllOnes(w) == 0 .. (w - 1)

\* bits, saturated to w bits
Saturated(bits, w) == IF SetMax(bits) >= w THEN AllOnes(w) ELSE bits

\* `a as uN` for an integer-valued or infinite a and N = w
IntAsUnsigned(t, w) ==
    CASE t.k = "nan" -> {}
      [] t.k = "inf" -> IF t.s > 0 THEN AllOnes(w) ELSE {}
      [] t.n <= 0 -> {}
      [] OTHER -> Saturated({b + t.e : b \in BitsOf(t.n)}, w)

\* `a as uN` for N = w: truncates toward zero and saturates at the bounds of
\* the type; NaN becomes 0
AsUnsigned(a, w) == IntAsUnsigned(FTrunc(a), w)

\* the least position p >= pos that is not a one bit of x
RECURSIVE FirstClear(_, _)
FirstClear(x, pos) == IF pos \in x THEN FirstClear(x, pos + 1) ELSE pos

\* x + 2^pos on bit sets
AddBit(x, pos) == (x \ (pos .. (FirstClear(x, pos) - 1))) \cup {FirstClear(x, pos)}

\* x rounded to the bits above position cut: the nearest, ties to even
Rounded(x, cut) ==
    IF cut \in x /\ ((\E b \in x : b < cut) \/ (cut + 1) \in x)
    THEN AddBit({b \in x : b > cut}, cut + 1)
    ELSE {b \in x : b > cut}

\* the f64 whose bits are r, r # {}
BitsToF(r) == Fin(SumPow2({b - SetMin(r) : b \in r}), 1, SetMin(r))

\* `x as f64` for an unsigned x: exact when x has at most 53 significant
\* bits, else rounded to the nearest such number, ties to even
UnsignedToF(x) ==
    IF x = {} THEN Zero ELSE BitsToF(Rounded(x, SetMax(x) - F64_MANTISSA_DIGITS))

\* the value of an unsigned integer below 2^31
UnsignedVal(x) == SumPow2(x)

\* x < w for an unsigned x and a small w
UnsignedLess(x, w) == x = {} \/ (SetMax(x) < 31 /\ UnsignedVal(x) < w)

None == [some |-> FALSE]

Some(v) == [some |-> TRUE, v |-> v]

UnwrapOr(o, dflt) == IF o.some THEN o.v ELSE dflt

\* u64::wrapping_shl(rhs: u32): the shift by rhs modulo 64
WrappingShl(x, rhs) ==
    Some({b + SumPow2(rhs \cap (0 .. 5)) : b \in x} \cap AllOnes(U64_BITS))

\* u64::checked_shl(rhs: u32): None when rhs >= 64, else the low 64 bits of
\* the shifted value
CheckedShl(x, rhs) ==
    IF ~UnsignedLess(rhs, U64_BITS) THEN None
    ELSE Some({b + UnsignedVal(rhs) : b \in x} \cap AllOnes(U64_BITS))

\* u64::checked_shr(rhs: u32)
CheckedShr(x, rhs) ==
    IF ~UnsignedLess(rhs, U64_BITS) THEN None
    ELSE Some({b - UnsignedVal(rhs) : b \in x} \cap AllOnes(U64_BITS))

(***************************************************************************)
(* Characters.  A character is a one-character string; "U+00E9" stands for *)
(* the two-byte character e-acute.                                         *)
(***************************************************************************)
Digits == {"0", "1", "2", "3", "4", "5", "6", "7", "8", "9"}

DigitVal(c) ==
    CASE c = "0" -> 0 [] c = "1" -> 1 [] c = "2" -> 2 [] c = "3" -> 3
      [] c = "4" -> 4 [] c = "5" -> 5 [] c = "6" -> 6 [] c = "7" -> 7
      [] c = "8" -> 8 [] c = "9" -> 9

Letters ==
    {"a", "b", "c", "d", "e", "f", "g", "h", "i", "j", "k", "l", "m", "n", "o",
     "p", "q", "r", "s", "t", "u", "v", "w", "x", "y", "z",
     "A", "B", "C", "D", "E", "F", "G", "H", "I", "J", "K", "L", "M", "N", "O",
     "P", "Q", "R", "S", "T", "U", "V", "W", "X", "Y", "Z"}

Whitespace == {" ", "\t", "\n", "\r"}

LenUtf8(c) == IF c = "U+00E9" THEN 2 ELSE 1

RECURSIVE ByteLen(_)
ByteLen(s) == IF s = <<>> THEN 0 ELSE LenUtf8(Head(s)) + ByteLen(Tail(s))

\* the index in s of the character that starts at byte offset off
RECURSIVE CharIdxFrom(_, _, _)
CharIdxFrom(s, i, off) ==
    IF off = 0 THEN i ELSE CharIdxFrom(s, i + 1, off - LenUtf8(s[i]))

CharIdx(s, off) == CharIdxFrom(s, 1, off)

\* &s[from..to] for byte offsets from <= to
Slice(s, from, to) == SubSeq(s, CharIdx(s, from), CharIdx(s, to) - 1)

(***************************************************************************)
(* Tokens                                                                  *)
(***************************************************************************)
Tok(t) == [type |-> t]

TNumber(n) == [type |-> "Number", n |-> n]

TIdentifier(id) == [type |-> "Identifier", id |-> id]

TUseless(c) == [type |-> "Useless", c |-> c]

TBad(str) == [type |-> "Bad", msg |-> "Invalid number", str |-> str]

(***************************************************************************)
(* Lexer: a record [input, cursor]                                         *)
(***************************************************************************)
LexerNew(input) == [input |-> input, cursor |-> 0]

PeekChar(lx) ==
    LET i == CharIdx(lx.input, lx.cursor)
    IN  IF i <= Len(lx.input) THEN Some(lx.input[i]) ELSE None

\* Lexer::consume: the lexer after it (its callers drop the character)
LexConsume(lx) ==
    LET p == PeekChar(lx)
    IN  IF p.some THEN [lx EXCEPT !.cursor = @ + LenUtf8(p.v)] ELSE lx

\* Lexer::consume_while with the condition "c is in cond": the lexer after
\* it; the string it returns is Slice(input, start cursor, end cursor)
RECURSIVE ConsumeWhile(_, _)
ConsumeWhile(lx, cond) ==
    LET p == PeekChar(lx)
    IN  IF p.some /\ p.v \in cond THEN ConsumeWhile(LexConsume(lx), cond)
        ELSE lx

SkipWhitespace(lx) == ConsumeWhile(lx, Whitespace)

RECURSIVE DecVal(_)
DecVal(s) ==
    IF s = <<>> THEN 0 ELSE 10 * DecVal(SubSeq(s, 1, Len(s) - 1)) + DigitVal(s[Len(s)])

\* str::parse::<f64> on the strings a lexer can pass: digits and "."
ParseF64(s) ==
    LET dots == {i \in 1 .. Len(s) : s[i] = "."}
        dot  == IF dots = {} THEN Len(s) + 1 ELSE SetMin(dots)
        ip   == SubSeq(s, 1, dot - 1)
        fp   == SubSeq(s, dot + 1, Len(s))
    IN  IF (\E i \in 1 .. Len(s) : i # dot /\ s[i] \notin Digits)
           \/ (ip = <<>> /\ fp = <<>>)
        THEN None
        ELSE Some(FAdd(Int2F(DecVal(ip)), Fin(DecVal(fp), 10^Len(fp), 0)))

\* Lexer::parse_number: [tok, lx]
ParseNumber(lx, is_negative) ==
    LET lx1     == ConsumeWhile(lx, Digits)
        digits  == Slice(lx.input, lx.cursor, lx1.cursor)
        p       == PeekChar(lx1)
        hasFrac == p.some /\ p.v \in {".", ","}
        lxd     == LexConsume(lx1)
        lx2     == IF hasFrac THEN ConsumeWhile(lxd, Digits) ELSE lx1
        num_str == IF hasFrac
                   THEN digits \o <<".">> \o Slice(lx.input, lxd.cursor, lx2.cursor)
                   ELSE digits
        r       == ParseF64(num_str)
    IN  [tok |-> IF r.some THEN TNumber(IF is_negative THEN FNeg(r.v) ELSE r.v)
                 ELSE TBad(num_str),
         lx  |-> lx2]

\* Lexer::parse_identifier: [tok, lx]
ParseIdentifier(lx) ==
    LET lx1 == ConsumeWhile(lx, Letters \ {";"})
    IN  [tok |-> TIdentifier(Slice(lx.input, lx.cursor, lx1.cursor)), lx |-> lx1]

\* Lexer::next_token: [tok, lx] with tok an Option<Token>
NextToken(lx0) ==
    LET lx == SkipWhitespace(lx0)
        p  == PeekChar(lx)
        c  == p.v
        l1 == LexConsume(lx)
        p1 == PeekChar(l1)
        one(t) == [tok |-> Some(t), lx |-> l1]
    IN  IF ~p.some THEN [tok |-> None, lx |-> lx]
        ELSE CASE c = "-" ->
                    IF p1.some /\ p1.v \in Digits
                    THEN LET r == ParseNumber(l1, TRUE)
                         IN  [tok |-> Some(r.tok), lx |-> r.lx]
                    ELSE one(Tok("Minus"))
               [] c = "+" -> one(Tok("Plus"))
               [] c = "*" ->
                    IF p1 = Some("*")
                    THEN [tok |-> Some(Tok("Exponent")), lx |-> LexConsume(l1)]
                    ELSE one(Tok("Product"))
               [] c = "^" -> one(Tok("Exponent"))
               [] c = "(" -> one(Tok("OpenParen"))
               [] c = ")" -> one(Tok("CloseParen"))
               [] c = ";" -> one(Tok("EndOfStatement"))
               [] c = "/" -> one(Tok("Division"))
               [] c = "<" ->
                    \* no consume: the peek below reads the same '<' again
                    LET q == PeekChar(lx)
                    IN  [tok |-> Some(IF q.some
                                      THEN IF q.v = "<" THEN Tok("BytesLeft")
                                           ELSE TUseless(q.v)
                                      ELSE TUseless("<")),
                         lx  |-> lx]
               [] c = ">" ->
                    IF p1.some
                    THEN IF p1.v = ">"
                         THEN [tok |-> Some(Tok("BytesRight")), lx |-> LexConsume(l1)]
                         ELSE one(TUseless(">"))
                    ELSE one(TUseless(">"))
               [] c \in Digits ->
                    LET r == ParseNumber(lx, FALSE)
                    IN  [tok |-> Some(r.tok), lx |-> r.lx]
               [] c \in Letters ->
                    LET r == ParseIdentifier(lx)
                    IN  [tok |-> Some(r.tok), lx |-> r.lx]
               [] OTHER -> one(TUseless(c))

(***************************************************************************)
(* Expressions and statements                                              *)
(***************************************************************************)
ENumber(n) == [type |-> "Number", n |-> n]

EIdentifier(id) == [type |-> "Identifier", id |-> id]

EBinary(op, left, right) ==
    [type |-> "Binary", op |-> op, left |-> left, right |-> right]

SExpression(expr) == [type |-> "Expression", expr |-> expr]

SPrint(expr) == [type |-> "Print", expr |-> expr]

SPrintColored(color, expr) ==
    [type |-> "PrintColored", color |-> color, expr |-> expr]

SAssignment(name, expr) == [type |-> "Assignment", name |-> name, expr |-> expr]

\* the variants of enum Colored
Colored ==
    {"Red", "Blue", "Green", "Yellow", "Purple", "Cyan", "Orange", "White",
     "Brown", "Pink", "MultiColor"}

KW_ZIPETTE == <<"z", "i", "p", "e", "t", "t", "e">>

KW_LSD == <<"l", "s", "d">>

KW_VICER == <<"v", "i", "c", "e", "r">>

\* the color match of the "lsd" arm: Some(color), or None for its `_` arm
ColorOf(name) ==
    CASE name = <<"r", "e", "d">> -> Some("Red")
      [] name = <<"b", "l", "u", "e">> -> Some("Blue")
      [] name = <<"g", "r", "e", "e", "n">> -> Some("Green")
      [] name = <<"y", "e", "l", "l", "o", "w">> -> Some("Yellow")
      [] name = <<"m", "u", "l", "t", "i", "c", "o", "l", "o", "r">>
           \/ name = <<"m", "u", "l", "t", "i">> -> Some("MultiColor")
      [] OTHER -> None

(***************************************************************************)
(* Parser<I>.  A parser reads its iterator through Iterator::next alone,   *)
(* and a lexer yields the same tokens whoever pulls them, so the iterator  *)
(* is the vector of the tokens it yields until it is exhausted, with the   *)
(* position of the next one: a record [toks, pos].  A Parser is a record   *)
(* [tokens, current].                                                      *)
(***************************************************************************)
\* what is left of Lexer: Iterator, collected
RECURSIVE LexAll(_)
Collected(r) == IF r.tok.some THEN <<r.tok.v>> \o LexAll(r.lx) ELSE <<>>

LexAll(lx) == Collected(NextToken(lx))

VecIter(toks) == [toks |-> toks, pos |-> 1]

\* Iterator::next: [item, it]
IterNext(it) ==
    IF it.pos <= Len(it.toks)
    THEN [item |-> Some(it.toks[it.pos]), it |-> [it EXCEPT !.pos = @ + 1]]
    ELSE [item |-> None, it |-> it]

Pulled(r) == [tokens |-> r.it, current |-> r.item]

ParserNew(tokens) == Pulled(IterNext(tokens))

\* Parser::consume
PConsume(ps) == Pulled(IterNext(ps.tokens))

CurrentIs(ps, types) == ps.current.some /\ ps.current.v.type \in types

\* what an expression-level function returns: the parser after it and the
\* expression, or the panic that unwound it
Parsed(ps, expr) == [panic |-> FALSE, ps |-> ps, expr |-> expr]

Panicked(msg, found) == [panic |-> TRUE, msg |-> msg, found |-> found]

TermOp(t) == IF t = "Plus" THEN "Sum" ELSE "Minus"

FactorOp(t) ==
    CASE t = "Product" -> "Product"
      [] t = "Division" -> "Division"
      [] t = "BytesLeft" -> "BytesLeft"
      [] t = "BytesRight" -> "BytesRight"

RECURSIVE ParseExpression(_), TermLoop(_, _), FactorExpression(_),
          FactorLoop(_, _), ExponentExpression(_), ExponentLoop(_, _)

\* parse_literal, '(' arm: after the inner parse_expression returned r
CloseParen(r) ==
    IF r.panic THEN r
    ELSE IF CurrentIs(r.ps, {"CloseParen"}) THEN Parsed(PConsume(r.ps), r.expr)
    ELSE Panicked("Expected ')' at the end", r.ps.current)

\* Parser::parse_literal
ParseLiteral(ps) ==
    CASE CurrentIs(ps, {"Number"}) -> Parsed(PConsume(ps), ENumber(ps.current.v.n))
      [] CurrentIs(ps, {"OpenParen"}) -> CloseParen(ParseExpression(PConsume(ps)))
      [] CurrentIs(ps, {"Identifier"}) ->
           Parsed(PConsume(ps), EIdentifier(ps.current.v.id))
      [] OTHER -> Panicked("Expected a number", ps.current)

\* exponent_expression: the Binary node built once the right operand is r
ExponentRight(left, r) ==
    IF r.panic THEN r ELSE ExponentLoop(r.ps, EBinary("Exponent", left, r.expr))

\* the loop with parse_literal for the right operand: groups to the left
ExponentLoopLeft(ps, left) ==
    IF CurrentIs(ps, {"Exponent"})
    THEN ExponentRight(left, ParseLiteral(PConsume(ps)))
    ELSE Parsed(ps, left)

\* the loop with parse_expression for the right operand: an exponent that
\* extends over the operators that follow
ExponentLoopLoose(ps, left) ==
    IF CurrentIs(ps, {"Exponent"})
    THEN ExponentRight(left, ParseExpression(PConsume(ps)))
    ELSE Parsed(ps, left)

\* the while loop of Parser::exponent_expression
ExponentLoop(ps, left) ==
    IF CurrentIs(ps, {"Exponent"})
    THEN ExponentRight(left, ExponentExpression(PConsume(ps)))
    ELSE Parsed(ps, left)

ExponentFrom(r) == IF r.panic THEN r ELSE ExponentLoop(r.ps, r.expr)

\* Parser::exponent_expression
ExponentExpression(ps) == ExponentFrom(ParseLiteral(ps))

\* factor_expression: the Binary node built once the right operand is r
FactorRight(op, left, r) ==
    IF r.panic THEN r ELSE FactorLoop(r.ps, EBinary(op, left, r.expr))

\* the while loop of Parser::factor_expression
FactorLoop(ps, left) ==
    IF CurrentIs(ps, {"Product", "Division", "BytesLeft", "BytesRight"})
    THEN FactorRight(FactorOp(ps.current.v.type), left, ExponentExpression(PConsume(ps)))
    ELSE Parsed(ps, left)

FactorFrom(r) == IF r.panic THEN r ELSE FactorLoop(r.ps, r.expr)

\* Parser::factor_expression
FactorExpression(ps) == FactorFrom(ExponentExpression(ps))

\* term_expression: the Binary node built once the right operand is r
TermRight(op, left, r) ==
    IF r.panic THEN r ELSE TermLoop(r.ps, EBinary(op, left, r.expr))

\* the while loop of Parser::term_expression
TermLoop(ps, left) ==
    IF CurrentIs(ps, {"Plus", "Minus"})
    THEN TermRight(TermOp(ps.current.v.type), left, FactorExpression(PConsume(ps)))
    ELSE Parsed(ps, left)

TermFrom(r) == IF r.panic THEN r ELSE TermLoop(r.ps, r.expr)

\* Parser::term_expression
TermExpression(ps) == TermFrom(FactorExpression(ps))

\* Parser::parse_expression
ParseExpression(ps) == TermExpression(ps)

\* what Parser::parse gives its caller: Ok(statements), Err(ParseError), or
\* the panic that unwinds through it
ParseOk(statements) == [kind |-> "Ok", statements |-> statements]

ParseErr(msg, what) == [kind |-> "Err", msg |-> msg, what |-> what]

ParsePanic(r) == [kind |-> "Panic", msg |-> r.msg, found |-> r.found]

\* the start of a statement up to its expression: the parser at the
\* expression and the statement to hold it, or the error returned
HeadOk(ps, stmt) == [err |-> FALSE, ps |-> ps, stmt |-> stmt]

HeadErr(msg, what) == [err |-> TRUE, e |-> ParseErr(msg, what)]

\* the "lsd" arm, nx the result of self.tokens.next()
LsdHead(ps, nx) ==
    IF nx.item.some /\ nx.item.v.type = "Identifier"
    THEN IF ColorOf(nx.item.v.id).some
         THEN HeadOk(PConsume([ps EXCEPT !.tokens = nx.it]),
                   SPrintColored(ColorOf(nx.item.v.id).v, <<>>))
         ELSE HeadErr("Unrecognised color type", nx.item.v.id)
    ELSE HeadErr("Unexpected end of statement (; required)", <<>>)

\* the "vicer" arm, nx the result of self.tokens.next()
VicerHead(ps, nx) ==
    IF nx.item.some /\ nx.item.v.type = "Identifier"
    THEN HeadOk(PConsume([ps EXCEPT !.tokens = nx.it]), SAssignment(nx.item.v.id, <<>>))
    ELSE HeadErr("Unexpected variable name", <<>>)

\* the body of the loop of parse up to the call of parse_expression
StatementHead(ps) ==
    IF CurrentIs(ps, {"Identifier"})
    THEN CASE ps.current.v.id = KW_ZIPETTE -> HeadOk(PConsume(ps), SPrint(<<>>))
           [] ps.current.v.id = KW_LSD -> LsdHead(ps, IterNext(ps.tokens))
           [] ps.current.v.id = KW_VICER -> VicerHead(ps, IterNext(ps.tokens))
           [] OTHER -> HeadErr("Unexpected identifier", ps.current.v.id)
    ELSE HeadOk(ps, SExpression(<<>>))

RECURSIVE ParseLoop(_, _)
\* the statement pushed and its terminator checked, r what parse_expression
\* returned
EndStatement(r, statements, stmt) ==
    IF r.panic THEN ParsePanic(r)
    ELSE IF ~CurrentIs(r.ps, {"EndOfStatement"})
         THEN ParseErr("Unexpected end of statement (; required)", <<>>)
         ELSE ParseLoop(PConsume(r.ps), Append(statements, [stmt EXCEPT !.expr = r.expr]))

ParseStatement(h, statements) ==
    IF h.err THEN h.e ELSE EndStatement(ParseExpression(h.ps), statements, h.stmt)

\* the while loop of Parser::parse
ParseLoop(ps, statements) ==
    IF ~ps.current.some THEN ParseOk(statements)
    ELSE ParseStatement(StatementHead(ps), statements)

\* Parser::parse
Parse(ps) == ParseLoop(ps, <<>>)

(***************************************************************************)
(* Evaluation                                                              *)
(***************************************************************************)
EvOk(v) == [ok |-> TRUE, v |-> v]

\* Err(ExecuteError("use of undefined variable {id}"))
EvErr(id) == [ok |-> FALSE, msg |-> "use of undefined variable", id |-> id]

\* u64::checked_shl or u64::checked_shr
CheckedShift(op, x, rhs) ==
    IF op = "BytesLeft" THEN CheckedShl(x, rhs) ELSE CheckedShr(x, rhs)

\* the arms of `match op` in Expression::evaluate, on the operands' values
ApplyOp(op, l, r) ==
    CASE op = "Sum" -> FAdd(l, r)
      [] op = "Product" -> FMul(l, r)
      [] op = "Division" -> FDiv(l, r)
      [] op = "Minus" -> FAdd(l, FNeg(r))
      [] op = "Exponent" -> FPow(l, r)
      [] op \in {"BytesLeft", "BytesRight"} ->
           UnsignedToF(UnwrapOr(CheckedShift(op, AsUnsigned(FTrunc(l), U64_BITS),
                                             AsUnsigned(r, U32_BITS)), {}))

\* the operands' errors in the other order
CombineRightFirst(op, l, r) ==
    IF ~r.ok THEN r ELSE IF ~l.ok THEN l ELSE EvOk(ApplyOp(op, l.v, r.v))

\* `left.evaluate(variables)? <op> right.evaluate(variables)?`: the left
\* operand's error returns before the right operand is evaluated
Combine(op, l, r) ==
    IF ~l.ok THEN l ELSE IF ~r.ok THEN r ELSE EvOk(ApplyOp(op, l.v, r.v))

\* Expression::evaluate; variables is a function from names to f64
RECURSIVE Evaluate(_, _)
Evaluate(expr, variables) ==
    CASE expr.type = "Identifier" ->
           IF expr.id \in DOMAIN variables THEN EvOk(variables[expr.id])
           ELSE EvErr(expr.id)
      [] expr.type = "Number" -> EvOk(expr.n)
      [] expr.type = "Binary" ->
           Combine(expr.op, Evaluate(expr.left, variables),
                   Evaluate(expr.right, variables))

\* HashMap::entry(name).or_insert(v): an existing binding is kept
InsertIfAbsent(variables, name, v) ==
    [x \in DOMAIN variables \cup {name} |->
        IF x \in DOMAIN variables THEN variables[x] ELSE v]

\* HashMap::insert
Insert(variables, name, v) ==
    [x \in DOMAIN variables \cup {name} |-> IF x = name THEN v ELSE variables[x]]

\* a line println! writes for a statement: the number, and the color the
\* terminal renders it in ("MultiColor": a random color for each character)
Line(v, color) == [kind |-> "println", value |-> v, color |-> color]

Executed(variables, out) == [ok |-> TRUE, variables |-> variables, out |-> out]

\* Statement::execute once its expression evaluated to r
ExecuteWith(stmt, variables, r) ==
    CASE ~r.ok -> [ok |-> FALSE, err |-> r]
      [] stmt.type = "Expression" -> Executed(variables, <<>>)
      [] stmt.type = "Print" -> Executed(variables, <<Line(r.v, "none")>>)
      [] stmt.type = "Assignment" -> Executed(Insert(variables, stmt.name, r.v), <<>>)
      [] stmt.type = "PrintColored" -> Executed(variables, <<Line(r.v, stmt.color)>>)

\* Statement::execute: [ok, variables, out] or [ok |-> FALSE, err]
Execute(stmt, variables) == ExecuteWith(stmt, variables, Evaluate(stmt.expr, variables))

(***************************************************************************)
(* The inputs the specifications draw from                                 *)
(***************************************************************************)
MaxText == 3

MaxStmts == 3

MaxChain == 4

MaxDump == 24

\* the words, each followed by a space
RECURSIVE Spaced(_)
Spaced(ws) == IF ws = <<>> THEN <<>> ELSE Head(ws) \o <<" ">> \o Spaced(Tail(ws))

SeqsUpTo(S, n) == UNION {[1 .. i -> S] : i \in 0 .. n}

\* every text of at most MaxText characters of this alphabet
TextAlphabet == {"1", "x", "-", "*", "<", ">", ";", ".", " ", "U+00E9"}

CharTexts == SeqsUpTo(TextAlphabet, MaxText)

\* one statement that starts with a word: a keyword or not, then a color
\* name or another token or nothing, then the rest
FirstWords == {KW_ZIPETTE, KW_LSD, KW_VICER, <<"f", "o", "o">>}

ColorNames ==
    {<<"r", "e", "d">>, <<"b", "l", "u", "e">>, <<"g", "r", "e", "e", "n">>,
     <<"y", "e", "l", "l", "o", "w">>, <<"p", "u", "r", "p", "l", "e">>,
     <<"c", "y", "a", "n">>, <<"o", "r", "a", "n", "g", "e">>,
     <<"w", "h", "i", "t", "e">>, <<"b", "r", "o", "w", "n">>,
     <<"p", "i", "n", "k">>,
     <<"m", "u", "l", "t", "i", "c", "o", "l", "o", "r">>}

SecondWords ==
    {<<w>> : w \in ColorNames}
        \cup {<<<<"m", "u", "l", "t", "i">>>>, <<<<"m", "a", "u", "v", "e">>>>,
              <<<<"x">>>>, <<<<"1">>>>, <<<<";">>>>, <<>>}

Rests ==
    {<<>>, <<<<";">>>>, <<<<"1">>>>, <<<<"1">>, <<";">>>>, <<<<"x">>, <<";">>>>,
     <<<<"(">>, <<"1">>, <<";">>>>, <<<<"(">>, <<"1">>, <<")">>, <<";">>>>,
     <<<<"1">>, <<"+">>, <<";">>>>, <<<<"1">>, <<"1">>, <<";">>>>}

WordTexts ==
    {Spaced(<<w1>> \o w2 \o r) : w1 \in FirstWords, w2 \in SecondWords, r \in Rests}

\* programs of at most MaxStmts of these statements
AssignX == KW_VICER \o <<" ", "x", " ", "5", ";">>

AssignY == KW_VICER \o <<" ", "y", " ", "1", "0", ";">>

AssignYFromX == KW_VICER \o <<" ", "y", " ", "x", " ", "+", " ", "1", ";">>

PrintSum == KW_ZIPETTE \o <<" ", "x", " ", "+", " ", "y", ";">>

PrintX == KW_ZIPETTE \o <<" ", "x", ";">>

PrintSeven == KW_ZIPETTE \o <<" ", "7", ";">>

DoubleX == <<"2", " ", "*", " ", "x", ";">>

StatementTexts ==
    {AssignX, AssignY, AssignYFromX, PrintSum, PrintX, PrintSeven, DoubleX}

ProgramTexts == {Spaced(ss) : ss \in SeqsUpTo(StatementTexts, MaxStmts)}

\* the expressions of section 8 of the specification, bare and printed
ExSumProduct == <<"2", " ", "+", " ", "3", " ", "*", " ", "4", ";">>

ExProductSum == <<"2", " ", "*", " ", "3", " ", "+", " ", "4", ";">>

ExParen ==
    <<"(", "2", " ", "+", " ", "3", ")", " ", "*", " ", "2", " ", "^", " ", "2", ";">>

ExExponent == <<"2", " ", "^", " ", "3", " ", "^", " ", "2", ";">>

ExStarStar == <<"2", "*", "*", "3", "*", "*", "2", ";">>

ExampleExprs == {ExSumProduct, ExProductSum, ExParen, ExExponent, ExStarStar}

ExampleTexts == ExampleExprs \cup {KW_ZIPETTE \o <<" ">> \o t : t \in ExampleExprs}

Texts == CharTexts \cup WordTexts \cup ProgramTexts \cup ExampleTexts

\* token vectors: a chain of at most MaxChain operands joined by operators
\* (the operands the number 2, but for a variable first or last), bare or after
\* the keyword zipette, and the bare chains with the first two operands in
\* parentheses
Two == Fin(2, 1, 0)

OperandPatterns(n) ==
    {[i \in 1 .. n |-> IF i = j THEN TIdentifier(<<"x">>) ELSE TNumber(Two)] :
        j \in {0, 1, n}}

AdditiveTokens == {Tok("Plus"), Tok("Minus")}

MultiplicativeTokens ==
    {Tok("Product"), Tok("Division"), Tok("BytesLeft"), Tok("BytesRight")}

OperatorTokens == AdditiveTokens \cup MultiplicativeTokens \cup {Tok("Exponent")}

\* o[1], ops[1], o[2], ..., ops[n-1], o[n]
RECURSIVE Interleave(_, _)
Interleave(o, ops) ==
    IF ops = <<>> THEN <<o[1]>>
    ELSE <<o[1], ops[1]>> \o Interleave(Tail(o), Tail(ops))

Chains ==
    UNION {{Interleave(o, ops) : o \in OperandPatterns(i),
                                 ops \in [1 .. (i - 1) -> OperatorTokens]} :
           i \in 1 .. MaxChain}

Terminated(c) == c \o <<Tok("EndOfStatement")>>

Parenthesised(c) ==
    <<Tok("OpenParen")>> \o SubSeq(c, 1, 3) \o <<Tok("CloseParen")>>
        \o SubSeq(c, 4, Len(c))

TokenVectors ==
    {Terminated(c) : c \in Chains}
        \cup {<<TIdentifier(KW_ZIPETTE)>> \o Terminated(c) : c \in Chains}
        \cup {Terminated(Parenthesised(c)) : c \in {d \in Chains : Len(d) >= 5}}

\* programs given to Interpreter::new: one shift of two operands, printed.
\* 2^32 and 2^32 + 32 are above every u32, 2^64 above every u64; 0 / 0 is
\* NaN and 1 / 0 is infinite.
ShiftLefts ==
    {ENumber(Zero), ENumber(One), ENumber(Fin(3, 1, 0)), ENumber(Fin(3, 2, 0)),
     ENumber(Fin(-1, 1, 0)), ENumber(Fin(1, 1, 31)), ENumber(Fin(1, 1, 63)),
     ENumber(Fin(3, 1, 62)), ENumber(Fin(1, 1, 64)),
     EBinary("Division", ENumber(One), ENumber(Zero)),
     EBinary("Division", ENumber(Zero), ENumber(Zero)),
     EIdentifier(<<"x">>)}

ShiftRights ==
    {ENumber(Zero), ENumber(One), ENumber(Fin(1, 2, 0)), ENumber(Fin(-1, 1, 0)),
     ENumber(Fin(31, 1, 1)), ENumber(Fin(63, 1, 0)), ENumber(Fin(127, 2, 0)),
     ENumber(Fin(1, 1, 6)), ENumber(Fin(65, 1, 0)), ENumber(Fin(1, 1, 32)),
     ENumber(Fin(1 + 2^27, 1, 5)), ENumber(Fin(1, 1, 64)),
     EBinary("Division", ENumber(One), ENumber(Zero)),
     EBinary("Division", ENumber(Zero), ENumber(Zero)),
     EIdentifier(<<"y">>)}

ShiftPrograms ==
    {<<SPrint(EBinary(op, l, r))>> :
        op \in {"BytesLeft", "BytesRight"}, l \in ShiftLefts, r \in ShiftRights}

(***************************************************************************)
(* The program: main reads the file, dumps its tokens with a first lexer,  *)
(* parses it with a second one and interprets the program; or a caller     *)
(* gives Parser::new an iterator of tokens, or Interpreter::new a program. *)
(***************************************************************************)
VARIABLES
    pc,         \* "dump", "parse", "run", "done", or "panicked"
    src,        \* what is parsed: the text of the file, or a vector of tokens
    lex,        \* the lexer of the token dump
    ndumped,    \* the tokens the dump has yielded
    last,       \* the last result of Iterator::next in the dump
    parsed,     \* what Parser::parse returned, or NoResult
    program,    \* Interpreter.program: the statements not yet executed
    variables,  \* Interpreter.variables
    stdout,     \* the lines written to the standard output
    failure,    \* the ExecuteError that ended try_for_each, or None
    ret         \* what Interpreter::interpret returned, or None

vars ==
    <<pc, src, lex, ndumped, last, parsed, program, variables, stdout, failure, ret>>

NoResult == [kind |-> "None"]

NoVariables == [x \in {} |-> NaN]

Fresh ==
    /\ ndumped = 0
    /\ last = None
    /\ parsed = NoResult
    /\ program = <<>>
    /\ variables = NoVariables
    /\ stdout = <<>>
    /\ failure = None
    /\ ret = None

Init ==
    /\ \/ \E t \in Texts :
             /\ src = [kind |-> "text", input |-> t]
             /\ lex = LexerNew(t)
             /\ pc = "dump"
       \/ \E v \in TokenVectors :
             /\ src = [kind |-> "vec", toks |-> v]
             /\ lex = LexerNew(<<>>)
             /\ pc = "parse"
    /\ Fresh

\* the dump after Iterator::next returned r
Dumped(r) ==
    /\ lex' = r.lx
    /\ last' = r.tok
    /\ ndumped' = IF r.tok.some THEN ndumped + 1 ELSE ndumped
    /\ pc' = IF r.tok.some THEN pc ELSE "parse"
    /\ stdout' = IF r.tok.some THEN stdout ELSE Append(stdout, [kind |-> "banner"])

\* main: one iteration of `lex.for_each(|c| { dbg!(c); })`; the banner once
\* the lexer is exhausted
DumpNext ==
    /\ pc = "dump"
    /\ ndumped < MaxDump
    /\ Dumped(NextToken(lex))
    /\ UNCHANGED <<src, parsed, program, variables, failure, ret>>

\* the iterator Parser::new is given
SrcIter(s) ==
    IF s.kind = "text" THEN VecIter(LexAll(LexerNew(s.input))) ELSE VecIter(s.toks)

\* what main does with the result r of parse: Interpreter::new on Ok, the
\* error printed on Err; a panic ends the process
ParseDone(r) ==
    /\ parsed' = r
    /\ pc' = CASE r.kind = "Ok" -> "run"
               [] r.kind = "Err" -> "done"
               [] r.kind = "Panic" -> "panicked"
    /\ program' = IF r.kind = "Ok" THEN r.statements ELSE program
    /\ stdout' = CASE r.kind = "Ok" -> stdout
                   [] r.kind = "Err" ->
                        Append(stdout, [kind |-> "parse_error", err |-> r])
                   [] r.kind = "Panic" ->
                        IF r.msg = "Expected a number"
                        THEN Append(stdout, [kind |-> "unexpected_token",
                                             found |-> r.found])
                        ELSE stdout

\* Parser::new and Parser::parse
ParseProgram ==
    /\ pc = "parse"
    /\ ParseDone(Parse(ParserNew(SrcIter(src))))
    /\ UNCHANGED <<src, lex, ndumped, last, variables, failure, ret>>

\* try_for_each after Statement::execute returned r
Stepped(r) ==
    /\ variables' = IF r.ok THEN r.variables ELSE variables
    /\ stdout' = IF r.ok THEN stdout \o r.out ELSE stdout
    /\ failure' = IF r.ok THEN failure ELSE Some(r.err)

\* Interpreter::interpret: one iteration of try_for_each
ExecuteNext ==
    /\ pc = "run"
    /\ program # <<>>
    /\ ~failure.some
    /\ Stepped(Execute(Head(program), variables))
    /\ program' = Tail(program)
    /\ UNCHANGED <<pc, src, lex, ndumped, last, parsed, ret>>

\* Interpreter::interpret: the end of try_for_each, inspect_err, and the
\* value returned
InterpretReturn ==
    /\ pc = "run"
    /\ ~(program # <<>> /\ ~failure.some)
    /\ stdout' = IF failure.some
                 THEN Append(stdout, [kind |-> "execute_error", err |-> failure.v])
                 ELSE stdout
    /\ ret' = Some(One)
    /\ pc' = "done"
    /\ UNCHANGED <<src, lex, ndumped, last, parsed, program, variables, failure>>

Next == DumpNext \/ ParseProgram \/ ExecuteNext \/ InterpretReturn

Spec == Init /\ [][Next]_vars

\* Interpreter::new(program).interpret() on the shift programs
InitInterp ==
    /\ \E prog \in ShiftPrograms :
          /\ src = [kind |-> "program", statements |-> prog]
          /\ program = prog
    /\ lex = LexerNew(<<>>)
    /\ pc = "run"
    /\ ndumped = 0
    /\ last = None
    /\ parsed = NoResult
    /\ variables = NoVariables
    /\ stdout = <<>>
    /\ failure = None
    /\ ret = None

NextInterp == ExecuteNext \/ InterpretReturn

SpecInterp == InitInterp /\ [][NextInterp]_vars

(***************************************************************************)
(* Properties                                                              *)
(***************************************************************************)
\* the character the lexer of the dump is positioned at, whitespace skipped
AtChar == PeekChar(SkipWhitespace(lex))

\* the byte offset of that character
AtCursor == SkipWhitespace(lex).cursor

\* the step is a call of Iterator::next in the dump that yields a token
YieldsToken == pc = "dump" /\ ndumped' = ndumped + 1 /\ last'.some

\* C1: every call of next_token that returns a token moves the cursor
\* strictly forward, so that a finite text is exhausted after finitely many
\* calls.
C1_TokenAdvancesCursor == [][YieldsToken => lex'.cursor > lex.cursor]_vars

\* C2: at a '<', the lexer consumes "<<" and yields BytesLeft when the next
\* character is '<' too, and otherwise consumes the single '<' and yields
\* Useless('<').
C2_LessThan ==
    [][(YieldsToken /\ AtChar = Some("<")) =>
         IF PeekChar([lex EXCEPT !.cursor = AtCursor + 1]) = Some("<")
         THEN last' = Some(Tok("BytesLeft")) /\ lex'.cursor = AtCursor + 2
         ELSE last' = Some(TUseless("<")) /\ lex'.cursor = AtCursor + 1]_vars

\* C3: parse returns Ok or Err to its caller for every sequence of tokens;
\* it never panics.
C3_ParseNeverAborts == pc # "panicked" /\ parsed.kind \in {"None", "Ok", "Err"}

\* the color the specification gives each name of its closed set
SpecColor(name) ==
    CASE name = <<"r", "e", "d">> -> "Red"
      [] name = <<"b", "l", "u", "e">> -> "Blue"
      [] name = <<"g", "r", "e", "e", "n">> -> "Green"
      [] name = <<"y", "e", "l", "l", "o", "w">> -> "Yellow"
      [] name = <<"p", "u", "r", "p", "l", "e">> -> "Purple"
      [] name = <<"c", "y", "a", "n">> -> "Cyan"
      [] name = <<"o", "r", "a", "n", "g", "e">> -> "Orange"
      [] name = <<"w", "h", "i", "t", "e">> -> "White"
      [] name = <<"b", "r", "o", "w", "n">> -> "Brown"
      [] name = <<"p", "i", "n", "k">> -> "Pink"
      [] name = <<"m", "u", "l", "t", "i", "c", "o", "l", "o", "r">> -> "MultiColor"

\* the text "lsd <name> 1 ; "
LsdText(name) == Spaced(<<KW_LSD, name, <<"1">>, <<";">>>>)

\* the identifiers that follow "lsd" in the texts
LsdNames ==
    ColorNames \cup {<<"m", "u", "l", "t", "i">>, <<"m", "a", "u", "v", "e">>, <<"x">>}

\* C4: after "lsd", the identifier is accepted exactly when it is one of the
\* eleven color names, and then PrintColored with that color is emitted; any
\* other identifier makes parse return a ParseError.
C4_LsdColors ==
    \A name \in LsdNames :
        (src = [kind |-> "text", input |-> LsdText(name)] /\ parsed # NoResult) =>
            IF name \in ColorNames
            THEN parsed = ParseOk(<<SPrintColored(SpecColor(name), ENumber(One))>>)
            ELSE parsed.kind = "Err"

\* C5: when a statement has failed, the value interpret returns to its
\* caller is the ExecuteError of that statement, which tells the run apart
\* from one without failure.
C5_FailureSurfaced ==
    (ret.some /\ failure.some) => ret.v = [ok |-> FALSE, err |-> failure.v]
\* the lines the statements of the program have printed
Printlns(out) == SelectSeq(out, LAMBDA l : l.kind = "println")

\* the identifiers of an expression, from left to right
RECURSIVE Idents(_)
Idents(e) ==
    CASE e.type = "Identifier" -> <<e.id>>
      [] e.type = "Number" -> <<>>
      [] e.type = "Binary" -> Idents(e.left) \o Idents(e.right)

\* those of them that env does not bind
Unbound(e, env) == SelectSeq(Idents(e), LAMBDA id : id \notin DOMAIN env)

\* try_for_each is about to execute a statement
AboutToExecute == pc = "run" /\ program # <<>> /\ ~failure.some

\* C6: a statement whose expression references an unbound variable fails
\* with the error that names the leftmost unbound one; that statement and
\* those after it print nothing and are not executed, and the lines printed
\* before are kept.
C6_UndefinedVariable ==
    [][/\ (AboutToExecute /\ Unbound(Head(program).expr, variables) # <<>>) =>
            /\ failure' = Some(EvErr(Head(Unbound(Head(program).expr, variables))))
            /\ Printlns(stdout') = Printlns(stdout)
            /\ variables' = variables
       /\ failure.some =>
            /\ failure' = failure
            /\ Printlns(stdout') = Printlns(stdout)
            /\ program' = program
            /\ variables' = variables]_vars

\* a print, a failure on x with y unbound too, and a statement never executed
C6_Witness ==
    /\ src = [kind |-> "text", input |-> Spaced(<<PrintSeven, PrintSum, PrintSeven>>)]
    /\ pc = "done"
    /\ failure = Some(EvErr(<<"x">>))
    /\ Printlns(stdout) = <<Line(Int2F(7), "none")>>
    /\ Len(program) = 1

\* the operand and the operator a token stands for
OperandOf(t) == IF t.type = "Number" THEN ENumber(t.n) ELSE EIdentifier(t.id)

OpOf(t) == IF t.type = "Plus" THEN "Sum" ELSE t.type

\* the precedence levels of the grammar: term 1, factor 2, exponent 3; a
\* primary is of level 4
Level(op) ==
    CASE op \in {"Sum", "Minus"} -> 1
      [] op \in {"Product", "Division", "BytesLeft", "BytesRight"} -> 2
      [] op = "Exponent" -> 3

\* A chain of the token vectors: its tokens without the keyword and the
\* terminator.  When it starts with a parenthesis, the group is the
\* expression in the parentheses, which is the leftmost primary.
IsPrinted == src.toks[1] = TIdentifier(KW_ZIPETTE)

Body == SubSeq(src.toks, IF IsPrinted THEN 2 ELSE 1, Len(src.toks) - 1)

HasGroup == Body[1] = Tok("OpenParen")

NoGroup == [type |-> "None"]

Group ==
    IF HasGroup THEN EBinary(OpOf(Body[3]), OperandOf(Body[2]), OperandOf(Body[4]))
    ELSE NoGroup

\* the operand or the operator of a token
Item(t, is_operand) ==
    IF is_operand THEN OperandOf(t) ELSE [type |-> "Op", op |-> OpOf(t)]

\* the operands and operators of the chain, in order
BodyItems ==
    IF HasGroup
    THEN <<[type |-> "Group"]>>
             \o [i \in 1 .. (Len(Body) - 5) |-> Item(Body[i + 5], i % 2 = 0)]
    ELSE [i \in 1 .. Len(Body) |-> Item(Body[i], i % 2 = 1)]

\* the operands and operators of an expression, in order; g is the group
\* when e is on the leftmost branch
RECURSIVE InOrder(_, _, _)
InOrder(e, g, leftmost) ==
    IF leftmost /\ e = g THEN <<[type |-> "Group"]>>
    ELSE IF e.type = "Binary"
         THEN InOrder(e.left, g, leftmost) \o <<[type |-> "Op", op |-> e.op]>>
                  \o InOrder(e.right, g, FALSE)
         ELSE <<e>>

LevelAt(e, g, leftmost) ==
    IF e.type = "Binary" /\ ~(leftmost /\ e = g) THEN Level(e.op) ELSE 4

\* no operand of a node is a node of a level that binds less
RECURSIVE PrecedenceOk(_, _, _)
PrecedenceOk(e, g, leftmost) ==
    \/ e.type # "Binary"
    \/ leftmost /\ e = g
    \/ /\ LevelAt(e.left, g, leftmost) >= Level(e.op)
       /\ LevelAt(e.right, g, FALSE) >= Level(e.op)
       /\ PrecedenceOk(e.left, g, leftmost)
       /\ PrecedenceOk(e.right, g, FALSE)

\* the left operand of an exponent is a primary; the right operand of a node
\* of another level is of a level that binds more
RECURSIVE AssociativityOk(_, _, _)
AssociativityOk(e, g, leftmost) ==
    \/ e.type # "Binary"
    \/ leftmost /\ e = g
    \/ /\ IF Level(e.op) = 3 THEN LevelAt(e.left, g, leftmost) = 4
          ELSE LevelAt(e.right, g, FALSE) > Level(e.op)
       /\ AssociativityOk(e.left, g, leftmost)
       /\ AssociativityOk(e.right, g, FALSE)

\* parse has returned for a chain that is an expression statement or a print
\* (a statement that starts with another identifier is an error)
ChainParsed ==
    /\ src.kind = "vec"
    /\ parsed # NoResult
    /\ IsPrinted \/ Body[1].type # "Identifier"

\* parse returned the one statement of the chain, with the operands and the
\* operators in the order of the tokens
ChainKept ==
    /\ parsed.kind = "Ok"
    /\ Len(parsed.statements) = 1
    /\ parsed.statements[1].type = (IF IsPrinted THEN "Print" ELSE "Expression")
    /\ InOrder(parsed.statements[1].expr, Group, TRUE) = BodyItems

ChainExpr == parsed.statements[1].expr

Node(o, l, r) == EBinary(OpOf(o), l, r)

\* a o1 b o2 c with operators of two levels
TwoLevels(a, o1, b, o2, c) ==
    IF Level(OpOf(o1)) < Level(OpOf(o2)) THEN Node(o1, a, Node(o2, b, c))
    ELSE Node(o2, Node(o1, a, b), c)

\* a text has been parsed to one statement whose expression has the value v
TextIs(t, v) ==
    (src = [kind |-> "text", input |-> t] /\ parsed # NoResult) =>
        /\ parsed.kind = "Ok"
        /\ Len(parsed.statements) = 1
        /\ Evaluate(parsed.statements[1].expr, NoVariables) = EvOk(Int2F(v))

\* the text, printed, has written the value v
PrintIs(t, v) ==
    (src = [kind |-> "text", input |-> KW_ZIPETTE \o <<" ">> \o t] /\ pc = "done") =>
        stdout = <<[kind |-> "banner"], Line(Int2F(v), "none")>>

\* C7: in the expression parse returns for a chain of operands and
\* operators, no operand of a node is a node of a lower level (term below
\* factor below exponent), and an expression in parentheses is a primary;
\* a + b * c is Add(a, Mul(b, c)), a * b + c is Add(Mul(a, b), c) and
\* (a + b) * c ^ d is Mul(Add(a, b), Pow(c, d)); the three examples have
\* the values 14, 10 and 20.
C7_Precedence ==
    /\ ChainParsed =>
         /\ ChainKept
         /\ PrecedenceOk(ChainExpr, Group, TRUE)
         /\ (~HasGroup /\ Len(Body) = 5
               /\ Level(OpOf(Body[2])) # Level(OpOf(Body[4]))) =>
                ChainExpr = TwoLevels(OperandOf(Body[1]), Body[2], OperandOf(Body[3]),
                                      Body[4], OperandOf(Body[5]))
         /\ (HasGroup /\ Len(Body) = 9
               /\ Level(OpOf(Body[6])) < Level(OpOf(Body[8]))) =>
                ChainExpr = Node(Body[6], Group,
                                 Node(Body[8], OperandOf(Body[7]), OperandOf(Body[9])))
    /\ TextIs(ExSumProduct, 14) /\ PrintIs(ExSumProduct, 14)
    /\ TextIs(ExProductSum, 10) /\ PrintIs(ExProductSum, 10)
    /\ TextIs(ExParen, 20) /\ PrintIs(ExParen, 20)

\* (2 + 2) * 2 ^ 2 parsed to Mul(Add(2, 2), Pow(2, 2))
C7_Witness ==
    /\ src = [kind |-> "vec",
              toks |-> <<Tok("OpenParen"), TNumber(Two), Tok("Plus"), TNumber(Two),
                         Tok("CloseParen"), Tok("Product"), TNumber(Two),
                         Tok("Exponent"), TNumber(Two), Tok("EndOfStatement")>>]
    /\ parsed = ParseOk(<<SExpression(
           EBinary("Product", EBinary("Sum", ENumber(Two), ENumber(Two)),
                   EBinary("Exponent", ENumber(Two), ENumber(Two))))>>)
    /\ pc = "done"

\* a o1 b o2 c with operators of one level
OneLevel(a, o1, b, o2, c) ==
    IF Level(OpOf(o1)) = 3 THEN Node(o1, a, Node(o2, b, c))
    ELSE Node(o2, Node(o1, a, b), c)

\* C8: in the expression parse returns for a chain, the left operand of an
\* exponent is a primary (exponents group to the right) and the right
\* operand of a term or factor operator is of a higher level (they group to
\* the left); a ^ b ^ c is Pow(a, Pow(b, c)), a - b - c is Sub(Sub(a, b), c),
\* a / b / c is Div(Div(a, b), c); 2 ^ 3 ^ 2 has the value 512.
C8_Associativity ==
    /\ ChainParsed =>
         /\ ChainKept
         /\ AssociativityOk(ChainExpr, Group, TRUE)
         /\ (~HasGroup /\ Len(Body) = 5
               /\ Level(OpOf(Body[2])) = Level(OpOf(Body[4]))) =>
                ChainExpr = OneLevel(OperandOf(Body[1]), Body[2], OperandOf(Body[3]),
                                     Body[4], OperandOf(Body[5]))
    /\ TextIs(ExExponent, 512) /\ PrintIs(ExExponent, 512)

\* 2 ^ 3 ^ 2, printed, has written 512
C8_Witness ==
    /\ src = [kind |-> "text", input |-> KW_ZIPETTE \o <<" ">> \o ExExponent]
    /\ parsed = ParseOk(<<SPrint(EBinary("Exponent", ENumber(Int2F(2)),
                  EBinary("Exponent", ENumber(Int2F(3)), ENumber(Int2F(2)))))>>)
    /\ stdout = <<[kind |-> "banner"], Line(Int2F(512), "none")>>
    /\ pc = "done"

\* the statement try_for_each is about to execute succeeds in this step
Succeeds == AboutToExecute /\ failure' = failure

RoundTrip == Spaced(<<AssignX, AssignY, PrintSum>>)

\* C9: a successful Assignment binds its name to the value its expression
\* has in the environment before it and leaves the other bindings as they
\* are; a successful Print or expression statement leaves the environment
\* as it is; a reference to a variable reads the value bound to it; the
\* program "vicer x 5; vicer y 10; zipette x + y;" prints 15.
C9_Bindings ==
    [][/\ (Succeeds /\ Head(program).type = "Assignment") =>
            /\ DOMAIN variables' = DOMAIN variables \cup {Head(program).name}
            /\ variables'[Head(program).name] =
                   Evaluate(Head(program).expr, variables).v
            /\ \A x \in DOMAIN variables \ {Head(program).name} :
                   variables'[x] = variables[x]
       /\ (Succeeds /\ Head(program).type # "Assignment") => variables' = variables
       /\ (Succeeds /\ Head(program) = SPrint(EIdentifier(<<"x">>))) =>
            stdout' = Append(stdout, Line(variables[<<"x">>], "none"))
       /\ (src = [kind |-> "text", input |-> RoundTrip] /\ pc = "run" /\ pc' = "done") =>
            /\ Printlns(stdout') = <<Line(Int2F(15), "none")>>
            /\ ~failure.some]_vars

\* y assigned twice, the second time from x, and x printed
C9_Witness ==
    /\ src = [kind |-> "text", input |-> Spaced(<<AssignX, AssignY, AssignYFromX>>)]
    /\ variables = [v \in {<<"x">>, <<"y">>} |-> IF v = <<"x">> THEN Int2F(5) ELSE Int2F(6)]
    /\ ~failure.some
    /\ pc = "done"

\* the operands of the shift of a shift program, when both have a value
ShiftExpr == src.statements[1].expr

LeftOperand == Evaluate(ShiftExpr.left, NoVariables)

RightOperand == Evaluate(ShiftExpr.right, NoVariables)

ShiftExecuted ==
    src.kind = "program" /\ program = <<>> /\ LeftOperand.ok /\ RightOperand.ok

\* v >= 64
AtLeast64(v) ==
    \/ v.k = "inf" /\ v.s > 0
    \/ v.k = "fin" /\ v.n > 0 /\ GeqPow2(v.n, v.d, 6 - v.e)

\* v > 63
Exceeds63(v) ==
    \/ AtLeast64(v)
    \/ /\ v.k = "fin" /\ v.n > 0 /\ GeqPow2(v.n, v.d, 5 - v.e)
       /\ FSign(FAdd(v, Int2F(-63))) > 0

\* 0 <= v <= 63
UpTo63(v) == v.k = "fin" /\ v.n >= 0 /\ ~Exceeds63(v)

PrintedZero == ~failure.some /\ Printlns(stdout) = <<Line(Zero, "none")>>

\* C10: a shift whose right operand is at least 64 (its integer part
\* exceeds 63), be it above 2^32 or infinite, has the value 0 whatever the
\* left operand, and a shift whose right operand is from 0 to 63 does not
\* fail.
C10_ShiftAmount ==
    ShiftExecuted =>
        /\ AtLeast64(RightOperand.v) => PrintedZero
        /\ UpTo63(RightOperand.v) => ~failure.some /\ Len(Printlns(stdout)) = 1

\* C10 as stated: a shift whose right operand exceeds 63 has the value 0.
C10_Exceeds63 ==
    ShiftExecuted =>
        /\ Exceeds63(RightOperand.v) => PrintedZero
        /\ UpTo63(RightOperand.v) => ~failure.some /\ Len(Printlns(stdout)) = 1

\* 3 << (2^32 + 32) has printed 0
C10_Witness ==
    /\ src = [kind |-> "program",
              statements |-> <<SPrint(EBinary("BytesLeft", ENumber(Fin(3, 1, 0)),
                                              ENumber(Fin(1 + 2^27, 1, 5))))>>]
    /\ PrintedZero
    /\ pc = "done"

\* the operands of the shift as unsigned integers: l of 64 bits, r of 32
LeftBits == AsUnsigned(FTrunc(LeftOperand.v), U64_BITS)

RightBits == AsUnsigned(RightOperand.v, U32_BITS)

\* the bits of l * 2^r
ProductBits == {b + UnsignedVal(RightBits) : b \in LeftBits}

\* a left shift of two operands that have a value, the amount from 0 to 63
LeftShiftExecuted ==
    /\ ShiftExecuted
    /\ ShiftExpr.op = "BytesLeft"
    /\ UnsignedLess(RightBits, U64_BITS)

\* C11: for an amount r from 0 to 63, l << r is l * 2^r when the product
\* fits in 64 bits, and 0 when it does not.
C11_OverflowToZero ==
    LeftShiftExecuted =>
        /\ ~failure.some
        /\ Printlns(stdout) =
               <<Line(IF ProductBits \subseteq AllOnes(U64_BITS)
                      THEN UnsignedToF(ProductBits) ELSE Zero, "none")>>
====
